---- MODULE Spec2Model ----
(***************************************************************************)
(* Model of bot/anthropic_utils.py: the Claude client's send_message and   *)
(* send_message_stream retry loops around the remote completion call.      *)
(* One call is modelled from entry to its terminal state; every step is    *)
(* the code that runs between two awaits (or yields).  The remote service  *)
(* is the environment: each await is answered by a nondeterministic choice *)
(* among the responses the client library can deliver.                     *)
(*                                                                         *)
(* Texts are sequences of one-character strings.  The status code of an    *)
(* APIStatusError is a tagged value: the client library copies it from the *)
(* HTTP response as an integer, while the source compares it with string   *)
(* literals; both kinds of value are in the environment's alphabet, and    *)
(* Python's == between an int and a str is False.                          *)
(***************************************************************************)
EXTENDS Integers, Sequences, FiniteSets, TLC

\* ---------------------------------------------------------------- bounds
MaxTurns  == 2      \* longest caller history
MaxCalls  == 3      \* remote invocations explored per call
MaxEvents == 2      \* stream events explored per attempt
MaxConcCalls  == 3  \* remote invocations explored over two interleaved calls
MaxConcEvents == 1  \* stream events in progress over two interleaved calls

\* ------------------------------------------------------- program constants
TOKENS_PER_MESSAGE == 3          \* gpt-4 and claude-3 entries of the if-chain
TOKENS_PER_MESSAGE_GPT35 == 4    \* gpt-3.5-turbo entries of the if-chain
TOKENS_PER_CONVERSATION == 2

\* a constructor that also lets an older Claude identifier through
KnownModels_wider == {"claude-3-opus-20240229", "claude-3-sonnet-20240229",
                      "claude-3-5-sonnet-20240620", "claude-2"}

\* line 17: the identifiers the constructor's assert accepts
KnownModels == {"claude-3-opus-20240229", "claude-3-sonnet-20240229",
                "claude-3-5-sonnet-20240620"}

\* config.chat_modes: key -> prompt_start
chat_modes == [m \in {"assistant"} |-> <<"S">>]

ANTHROPIC_COMPLETION_OPTIONS ==
    [temperature |-> "0.7", max_tokens |-> 4000, top_p |-> 1, timeout |-> "60.0"]

\* ------------------------------------------------------------ value sets
None    == <<"None">>          \* Python None for the local `answer`
Unbound == -1                  \* a local that has not been assigned yet

Whitespace == {" "}

Turn1 == [user |-> <<"p">>, bot |-> <<"q">>]
Turn2 == [user |-> <<"r">>, bot |-> <<"s">>]
Turns == {Turn1, Turn2}

Histories == UNION {[1..n -> Turns] : n \in 0..MaxTurns}
Messages  == {<<"h">>}
ChatModeKeys == {"assistant", "pirate"}

StrCode(c) == [type |-> "str", code |-> c]
IntCode(c) == [type |-> "int", code |-> c]
StatusCodes == {IntCode(403), IntCode(429), IntCode(500), StrCode(403), StrCode(429)}

\* errors of the remote call that are not APIStatusError
OtherErrors == {"APIConnectionError"}

AnswerTexts == {<<>>, <<" ">>, <<"a">>, <<" ", "a", " ", "a", " ">>}
Fragments   == {<<"a">>, <<" ">>}
Usages      == {<<5, 3>>, <<7, 2>>}
DeltaOutputTokens == {9}

VARIABLES model, kind, message, history, chat_mode,
          pc, dialog_messages, n_dialog_messages_before, answer,
          n_input_tokens, n_output_tokens, n_first_dialog_messages_removed,
          calls, emitted, received, nevents, outcome, result,
          earlier,  \* what the previous call on the same inputs logged and returned
          usage_seen, \* output-token count of the attempt's last message_delta, if any
          other     \* the locals of a second call on the same client, suspended

vars == <<model, kind, message, history, chat_mode,
          pc, dialog_messages, n_dialog_messages_before, answer,
          n_input_tokens, n_output_tokens, n_first_dialog_messages_removed,
          calls, emitted, received, nevents, outcome, result, earlier,
          usage_seen, other>>

\* ------------------------------------------------------------- helpers
PyEqStr(sc, lit) == sc.type = "str" /\ sc.code = lit

RECURSIVE lstrip(_)
lstrip(s) == IF s # <<>> /\ Head(s) \in Whitespace THEN lstrip(Tail(s)) ELSE s

RECURSIVE rstrip(_)
rstrip(s) == IF s # <<>> /\ s[Len(s)] \in Whitespace
             THEN rstrip(SubSeq(s, 1, Len(s) - 1)) ELSE s

\* a variant that trims the front only
postprocess_lstrip_only(a) == lstrip(a)

_postprocess_answer(a) == rstrip(lstrip(a))

\* a variant that appends the assistant entry of a turn before its user entry
RECURSIVE generate_prompt_messages_swapped(_, _, _)
generate_prompt_messages_swapped(msg, dm, mode) ==
    IF dm = <<>>
    THEN << [role |-> "user", content |-> msg] >>
    ELSE << [role |-> "assistant", content |-> Head(dm).bot],
            [role |-> "user", content |-> Head(dm).user] >>
         \o generate_prompt_messages_swapped(msg, Tail(dm), mode)

RECURSIVE _generate_prompt_messages(_, _, _)
_generate_prompt_messages(msg, dm, mode) ==
    IF dm = <<>>
    THEN << [role |-> "user", content |-> msg] >>
    ELSE << [role |-> "user", content |-> Head(dm).user],
            [role |-> "assistant", content |-> Head(dm).bot] >>
         \o _generate_prompt_messages(msg, Tail(dm), mode)

\* tiktoken's encoder, abstracted: one token per character of a text,
\* one token for a role name
tok(text) == Len(text)
tokRole(r) == 1

Request(stream) ==
    [model |-> model, system |-> chat_modes[chat_mode],
     messages |-> _generate_prompt_messages(message, dialog_messages, chat_mode),
     stream |-> stream, options |-> ANTHROPIC_COMPLETION_OPTIONS,
     dialog_messages |-> dialog_messages]

Err(k, d) == [kind |-> k, detail |-> d]
NoOutcome == Err("none", "")
Exhausted == Err("ValueError", "Dialog messages is reduced to zero")
RateLimited == Err("ValueError", "rate limit reached, try again later")
UnsupportedMode == Err("ValueError", "Chat mode is not supported")
UnboundLocal == Err("UnboundLocalError", "n_input_tokens")

Ok == Err("ok", "")
UnknownModel == Err("ValueError", "Unknown model")
NoneHasNoStrip == Err("AttributeError", "NoneType object has no attribute strip")
TiktokenKeyError == Err("KeyError", "Could not automatically map model to a tokeniser")

\* lines 29, 65: the models the loop body accepts
LoopModels == {"claude-3-opus-20240229", "claude-3-sonnet-20240229",
               "claude-3-5-sonnet-20240620"}

\* line 133: identifiers with 'claude' in them
ClaudeNamed == LoopModels \cup {"claude-2"}
\* line 136: identifiers tiktoken.encoding_for_model maps to an encoding;
\* any other raises KeyError
TiktokenModels == {"gpt-3.5-turbo-16k", "gpt-3.5-turbo", "gpt-4",
                   "gpt-4-1106-preview", "text-davinci-003"}
ModelIds == ClaudeNamed \cup TiktokenModels \cup {"llama-3"}

\* lines 137-159: the if-chain on the model identifier
tokens_per_message(mdl) ==
    CASE mdl \in {"gpt-3.5-turbo-16k", "gpt-3.5-turbo"} -> TOKENS_PER_MESSAGE_GPT35
      [] mdl \in {"gpt-4", "gpt-4-1106-preview"} -> TOKENS_PER_MESSAGE
      [] mdl \in {"claude-3-opus-20240229", "claude-3-sonnet-20240229",
                  "claude-3-5-sonnet-20240620"} -> TOKENS_PER_MESSAGE
      [] OTHER -> Unbound

\* lines 162-168: every value of a message (its role and its content) is encoded
RECURSIVE SumInput(_, _)
SumInput(ms, tpm) ==
    IF ms = <<>> THEN 0
    ELSE tpm + tokRole(Head(ms).role) + tok(Head(ms).content)
         + SumInput(Tail(ms), tpm)

\* a variant that leaves out the 1 added to the output count on line 173
count_tokens_no_reply_token(ms, a, mdl) ==
    IF mdl \notin ClaudeNamed /\ mdl \notin TiktokenModels
    THEN [raised |-> TiktokenKeyError, n_input_tokens |-> Unbound, n_output_tokens |-> Unbound]
    ELSE IF tokens_per_message(mdl) = Unbound
    THEN [raised |-> UnknownModel, n_input_tokens |-> Unbound, n_output_tokens |-> Unbound]
    ELSE [raised |-> NoOutcome,
          n_input_tokens |-> SumInput(ms, tokens_per_message(mdl)) + TOKENS_PER_CONVERSATION,
          n_output_tokens |-> tok(a)]

\* lines 132-175.  raised: the error the function ends with, NoOutcome if none
_count_tokens_from_messages(ms, a, mdl) ==
    IF mdl \notin ClaudeNamed /\ mdl \notin TiktokenModels
    THEN [raised |-> TiktokenKeyError, n_input_tokens |-> Unbound, n_output_tokens |-> Unbound]
    ELSE IF tokens_per_message(mdl) = Unbound
    THEN [raised |-> UnknownModel, n_input_tokens |-> Unbound, n_output_tokens |-> Unbound]
    ELSE [raised |-> NoOutcome,
          n_input_tokens |-> SumInput(ms, tokens_per_message(mdl)) + TOKENS_PER_CONVERSATION,
          n_output_tokens |-> 1 + tok(a)]

Element(status, a, nin, nout, removed) ==
    [status |-> status, answer |-> a, tokens |-> <<nin, nout>>, removed |-> removed]

\* what the remote service answered to an attempt (kept with the request in `calls`)
RespOk == [kind |-> "ok", status_code |-> IntCode(200), midstream |-> FALSE]
\* the message a non-streamed call returns: r.content[0].text and r.usage
RespMessage(text, u) ==
    [kind |-> "ok", status_code |-> IntCode(200), midstream |-> FALSE,
     text |-> text, usage |-> u]
RespStatusError(sc, mid) == [kind |-> "APIStatusError", status_code |-> sc, midstream |-> mid]
RespOtherError(e, mid) == [kind |-> e, status_code |-> IntCode(0), midstream |-> mid]

Call(stream, resp) == [request |-> Request(stream), response |-> resp]

\* The except clauses below return what the clause raises (NoOutcome: nothing),
\* the list the local `dialog_messages` is bound to afterwards, and the content
\* of the caller's list object afterwards.  `caller` is that object's content
\* before the clause runs.

\* a variant that forgets the newest turn instead of the oldest
send_except_droplast(sc, dm, caller) ==
    IF Len(dm) = 0 THEN [raised |-> Exhausted, dm |-> dm, caller |-> caller]
    ELSE IF PyEqStr(sc, 403)
         THEN [raised |-> NoOutcome, dm |-> SubSeq(dm, 1, Len(dm) - 1), caller |-> caller]
    ELSE IF PyEqStr(sc, 429) THEN [raised |-> RateLimited, dm |-> dm, caller |-> caller]
    ELSE [raised |-> NoOutcome, dm |-> dm, caller |-> caller]

\* a variant that removes the oldest turn in place (del dialog_messages[0]):
\* the local keeps referring to the caller's list, which loses the turn
send_except_inplace(sc, dm, caller) ==
    IF Len(dm) = 0 THEN [raised |-> Exhausted, dm |-> dm, caller |-> caller]
    ELSE IF PyEqStr(sc, 403)
         THEN [raised |-> NoOutcome, dm |-> Tail(dm), caller |-> Tail(dm)]
    ELSE IF PyEqStr(sc, 429) THEN [raised |-> RateLimited, dm |-> dm, caller |-> caller]
    ELSE [raised |-> NoOutcome, dm |-> dm, caller |-> caller]

\* lines 43-50: the except clause of send_message.  Line 48 binds the local to
\* a new list (a slice); the caller's list is not touched.
send_except(sc, dm, caller) ==
    IF Len(dm) = 0 THEN [raised |-> Exhausted, dm |-> dm, caller |-> caller]
    ELSE IF PyEqStr(sc, 403) THEN [raised |-> NoOutcome, dm |-> Tail(dm), caller |-> caller]
    ELSE IF PyEqStr(sc, 429) THEN [raised |-> RateLimited, dm |-> dm, caller |-> caller]
    ELSE [raised |-> NoOutcome, dm |-> dm, caller |-> caller]

\* lines 90-97: the except clause of send_message_stream (line 95 as line 48)
stream_except(sc, dm, caller) ==
    IF Len(dm) = 0 THEN [raised |-> Exhausted, dm |-> dm, caller |-> caller]
    ELSE IF PyEqStr(sc, 403) THEN [raised |-> NoOutcome, dm |-> Tail(dm), caller |-> caller]
    ELSE IF PyEqStr(sc, 429) THEN [raised |-> RateLimited, dm |-> dm, caller |-> caller]
    ELSE [raised |-> NoOutcome, dm |-> dm, caller |-> caller]

\* the locals of one activation of send_message / send_message_stream
Locals ==
    [kind |-> kind, message |-> message, chat_mode |-> chat_mode, pc |-> pc,
     dialog_messages |-> dialog_messages,
     n_dialog_messages_before |-> n_dialog_messages_before, answer |-> answer,
     n_input_tokens |-> n_input_tokens, n_output_tokens |-> n_output_tokens,
     n_first_dialog_messages_removed |-> n_first_dialog_messages_removed,
     calls |-> calls, emitted |-> emitted, received |-> received, nevents |-> nevents,
     outcome |-> outcome, result |-> result, usage_seen |-> usage_seen]

\* a call that has been made but has not run yet
FreshCall(k, msg, h, mode) ==
    [kind |-> k, message |-> msg, chat_mode |-> mode, pc |-> "start",
     dialog_messages |-> h, n_dialog_messages_before |-> Unbound, answer |-> None,
     n_input_tokens |-> Unbound, n_output_tokens |-> Unbound,
     n_first_dialog_messages_removed |-> Unbound,
     calls |-> <<>>, emitted |-> <<>>, received |-> <<>>, nevents |-> 0,
     outcome |-> NoOutcome, result |-> <<>>, usage_seen |-> Unbound]

\* no second call
NoCall == [FreshCall("send", <<>>, <<>>, "assistant") EXCEPT !.pc = "none"]

\* ---------------------------------------------------------------- Init
Init ==
    /\ model \in KnownModels
    /\ kind \in {"send", "stream"}
    /\ message \in Messages
    /\ history \in Histories
    /\ chat_mode \in ChatModeKeys
    /\ pc = "start"
    /\ dialog_messages = history
    /\ n_dialog_messages_before = Unbound
    /\ answer = None
    /\ n_input_tokens = Unbound
    /\ n_output_tokens = Unbound
    /\ n_first_dialog_messages_removed = Unbound
    /\ calls = <<>>
    /\ emitted = <<>>
    /\ received = <<>>
    /\ nevents = 0
    /\ outcome = NoOutcome
    /\ result = <<>>
    /\ earlier = [run |-> 1, calls |-> <<>>, outcome |-> NoOutcome, result |-> <<>>]
    /\ usage_seen = Unbound
    /\ other = NoCall

\* a variant without the membership test of lines 22-23
Enter_nocheck ==
    /\ pc = "start"
    /\ pc' = "loop"
    /\ n_dialog_messages_before' = Len(dialog_messages)
    /\ answer' = None
    /\ UNCHANGED <<other, earlier, usage_seen, model, kind, message, history,
                   chat_mode, dialog_messages,
                   n_input_tokens, n_output_tokens, n_first_dialog_messages_removed,
                   calls, emitted, received, nevents, outcome, result>>

\* lines 22-26 / 58-62: mode check, locals
Enter ==
    /\ pc = "start"
    /\ IF chat_mode \notin DOMAIN chat_modes
       THEN /\ pc' = "failed"
            /\ outcome' = UnsupportedMode
            /\ UNCHANGED <<n_dialog_messages_before, answer>>
       ELSE /\ pc' = "loop"
            /\ n_dialog_messages_before' = Len(dialog_messages)
            /\ answer' = None
            /\ UNCHANGED outcome
    /\ UNCHANGED <<other, earlier, usage_seen, model, kind, message, history,
                   chat_mode, dialog_messages,
                   n_input_tokens, n_output_tokens, n_first_dialog_messages_removed,
                   calls, emitted, received, nevents, result>>

\* ------------------------------------------------------- send_message
\* lines 27-42, 53-55: the remote call returns a message
SendCreateOk ==
    /\ pc = "loop" /\ kind = "send" /\ answer = None
    /\ Len(calls) < MaxCalls
    /\ IF model \notin LoopModels
       THEN \* lines 29, 38-39: ValueError, which the except clause does not catch
            /\ pc' = "failed"
            /\ outcome' = UnknownModel
            /\ UNCHANGED <<calls, answer, n_input_tokens, n_output_tokens,
                           n_first_dialog_messages_removed, result>>
       ELSE \E text \in AnswerTexts, u \in Usages :
            /\ calls' = Append(calls, Call(FALSE, RespMessage(text, u)))
            /\ answer' = _postprocess_answer(text)
            /\ n_input_tokens' = u[1]
            /\ n_output_tokens' = u[2]
            /\ n_first_dialog_messages_removed' =
                   n_dialog_messages_before - Len(dialog_messages)
            /\ result' = << answer', << n_input_tokens', n_output_tokens' >>,
                            n_first_dialog_messages_removed' >>
            /\ pc' = "done"
            /\ outcome' = Ok
    /\ UNCHANGED <<other, earlier, usage_seen, model, kind, message, history, chat_mode,
                   dialog_messages, n_dialog_messages_before, emitted, received, nevents>>

\* lines 31, 43-50: the remote call raises anthropic.APIStatusError
SendCreateAPIStatusError ==
    /\ pc = "loop" /\ kind = "send" /\ answer = None
    /\ Len(calls) < MaxCalls
    /\ model \in LoopModels
    /\ \E sc \in StatusCodes :
          LET h == send_except(sc, dialog_messages, history) IN
          /\ calls' = Append(calls, Call(FALSE, RespStatusError(sc, FALSE)))
          /\ dialog_messages' = h.dm
          /\ history' = h.caller
          /\ IF h.raised # NoOutcome
             THEN pc' = "failed" /\ outcome' = h.raised
             ELSE pc' = "loop" /\ UNCHANGED outcome
    /\ UNCHANGED <<other, earlier, usage_seen, model, kind, message, chat_mode,
                   n_dialog_messages_before, answer, n_input_tokens, n_output_tokens,
                   n_first_dialog_messages_removed, emitted, received, nevents, result>>

\* line 31: the remote call raises an error that is not an APIStatusError
SendCreateOtherError ==
    /\ pc = "loop" /\ kind = "send" /\ answer = None
    /\ Len(calls) < MaxCalls
    /\ model \in LoopModels
    /\ \E e \in OtherErrors :
          /\ calls' = Append(calls, Call(FALSE, RespOtherError(e, FALSE)))
          /\ pc' = "failed"
          /\ outcome' = Err("propagated", e)
    /\ UNCHANGED <<other, earlier, usage_seen, model, kind, message, history,
                   chat_mode, dialog_messages,
                   n_dialog_messages_before, answer, n_input_tokens, n_output_tokens,
                   n_first_dialog_messages_removed, emitted, received, nevents, result>>

\* ------------------------------------------------ send_message_stream
\* line 99: the statement after the loop.  Reading n_input_tokens when no
\* event of any attempt has assigned it raises UnboundLocalError.
\* a: the value of `answer` on leaving the loop.
StreamFinish(a) ==
    IF n_input_tokens = Unbound
    THEN /\ pc' = "failed"
         /\ outcome' = UnboundLocal
         /\ UNCHANGED emitted
    ELSE /\ emitted' = Append(emitted,
                Element("finished", a, n_input_tokens, n_output_tokens,
                        n_first_dialog_messages_removed))
         /\ pc' = "done"
         /\ outcome' = Ok

\* lines 66-75: the remote call returns the event stream
StreamCreateOk ==
    /\ pc = "loop" /\ kind = "stream" /\ answer = None
    /\ Len(calls) < MaxCalls
    /\ IF model \notin LoopModels
       THEN \* lines 65, 88: the if has no else branch; `answer` is still None
            \* and answer.strip() raises AttributeError, which is not caught
            /\ pc' = "failed"
            /\ outcome' = NoneHasNoStrip
            /\ UNCHANGED <<calls, answer, received, nevents, usage_seen>>
       ELSE /\ calls' = Append(calls, Call(TRUE, RespOk))
            /\ UNCHANGED outcome
            /\ answer' = <<>>
            /\ received' = <<>>
            /\ nevents' = 0
            /\ usage_seen' = Unbound
            /\ pc' = "iter"
    /\ UNCHANGED <<other, earlier, model, kind, message, history, chat_mode,
                   dialog_messages,
                   n_dialog_messages_before, n_input_tokens, n_output_tokens,
                   n_first_dialog_messages_removed, emitted, result>>

\* lines 67, 90-97: the remote call raises APIStatusError before the stream opens
StreamCreateAPIStatusError ==
    /\ pc = "loop" /\ kind = "stream" /\ answer = None
    /\ Len(calls) < MaxCalls
    /\ model \in LoopModels
    /\ \E sc \in StatusCodes :
          LET h == stream_except(sc, dialog_messages, history) IN
          /\ calls' = Append(calls, Call(TRUE, RespStatusError(sc, FALSE)))
          /\ dialog_messages' = h.dm
          /\ history' = h.caller
          /\ IF h.raised # NoOutcome
             THEN pc' = "failed" /\ outcome' = h.raised
             ELSE pc' = "loop" /\ UNCHANGED outcome
    /\ UNCHANGED <<other, earlier, usage_seen, model, kind, message, chat_mode,
                   n_dialog_messages_before, answer, n_input_tokens, n_output_tokens,
                   n_first_dialog_messages_removed, emitted, received, nevents, result>>

\* line 67: the remote call raises an error that is not an APIStatusError
StreamCreateOtherError ==
    /\ pc = "loop" /\ kind = "stream" /\ answer = None
    /\ Len(calls) < MaxCalls
    /\ model \in LoopModels
    /\ \E e \in OtherErrors :
          /\ calls' = Append(calls, Call(TRUE, RespOtherError(e, FALSE)))
          /\ pc' = "failed"
          /\ outcome' = Err("propagated", e)
    /\ UNCHANGED <<other, earlier, usage_seen, model, kind, message, history,
                   chat_mode, dialog_messages,
                   n_dialog_messages_before, answer, n_input_tokens, n_output_tokens,
                   n_first_dialog_messages_removed, emitted, received, nevents, result>>

\* lines 76-81: a content_block_delta event.  An error of the token count is
\* not an APIStatusError and leaves the generator.
StreamContentBlockDelta ==
    /\ pc = "iter" /\ nevents < MaxEvents
    /\ \E text \in Fragments :
          LET t == _count_tokens_from_messages(
                       _generate_prompt_messages(message, dialog_messages, chat_mode),
                       answer \o text, model) IN
          /\ answer' = answer \o text
          /\ received' = Append(received, text)
          /\ IF t.raised # NoOutcome
             THEN /\ pc' = "failed"
                  /\ outcome' = t.raised
                  /\ UNCHANGED <<n_input_tokens, n_output_tokens,
                                 n_first_dialog_messages_removed, emitted>>
             ELSE /\ n_input_tokens' = t.n_input_tokens
                  /\ n_output_tokens' = t.n_output_tokens
                  /\ n_first_dialog_messages_removed' =
                         n_dialog_messages_before - Len(dialog_messages)
                  /\ emitted' = Append(emitted,
                         Element("not_finished", answer', n_input_tokens', n_output_tokens',
                                 n_first_dialog_messages_removed'))
                  /\ UNCHANGED <<pc, outcome>>
    /\ nevents' = nevents + 1
    /\ UNCHANGED <<other, earlier, usage_seen, model, kind, message, history, chat_mode,
                   dialog_messages, n_dialog_messages_before, calls, result>>

\* lines 82-86: a message_delta event carrying the provider's output-token count
StreamMessageDelta ==
    /\ pc = "iter" /\ nevents < MaxEvents
    /\ \E out \in DeltaOutputTokens :
          LET t == _count_tokens_from_messages(
                       _generate_prompt_messages(message, dialog_messages, chat_mode),
                       answer, model) IN
          IF t.raised # NoOutcome
          THEN /\ pc' = "failed"
               /\ outcome' = t.raised
               /\ UNCHANGED <<n_input_tokens, n_output_tokens, usage_seen,
                              n_first_dialog_messages_removed, emitted>>
          ELSE /\ n_input_tokens' = t.n_input_tokens
               /\ n_output_tokens' = out
               /\ usage_seen' = out
               /\ n_first_dialog_messages_removed' =
                      n_dialog_messages_before - Len(dialog_messages)
               /\ emitted' = Append(emitted,
                      Element("not_finished", answer, n_input_tokens', n_output_tokens',
                              n_first_dialog_messages_removed'))
               /\ UNCHANGED <<pc, outcome>>
    /\ nevents' = nevents + 1
    /\ UNCHANGED <<other, earlier, model, kind, message, history, chat_mode,
                   dialog_messages,
                   n_dialog_messages_before, answer, received, calls, result>>

\* lines 76-77, 82: an event of any other type (message_start, ping, ...) is skipped
StreamOtherEvent ==
    /\ pc = "iter" /\ nevents < MaxEvents
    /\ nevents' = nevents + 1
    /\ UNCHANGED <<other, earlier, usage_seen, model, kind, message, history,
                   chat_mode, pc, dialog_messages,
                   n_dialog_messages_before, answer, n_input_tokens, n_output_tokens,
                   n_first_dialog_messages_removed, calls, emitted, received,
                   outcome, result>>

\* lines 76, 88, 63, 99: the event stream ends
StreamEnd ==
    /\ pc = "iter"
    /\ answer' = _postprocess_answer(answer)
    /\ calls' = [calls EXCEPT ![Len(calls)].response.kind = "stream_end"]
    /\ StreamFinish(answer')
    /\ UNCHANGED <<other, earlier, usage_seen, model, kind, message, history,
                   chat_mode, dialog_messages,
                   n_dialog_messages_before, n_input_tokens, n_output_tokens,
                   n_first_dialog_messages_removed, received, nevents, result>>

\* lines 76, 90-97, 63, 99: iterating the stream raises APIStatusError.
\* `answer` is already a str, so a handler that does not raise leaves the loop.
StreamIterAPIStatusError ==
    /\ pc = "iter"
    /\ \E sc \in StatusCodes :
          LET h == stream_except(sc, dialog_messages, history) IN
          /\ calls' = [calls EXCEPT ![Len(calls)].response = RespStatusError(sc, TRUE)]
          /\ dialog_messages' = h.dm
          /\ history' = h.caller
          /\ IF h.raised # NoOutcome
             THEN pc' = "failed" /\ outcome' = h.raised /\ UNCHANGED emitted
             ELSE IF answer = None
                  THEN pc' = "loop" /\ UNCHANGED <<outcome, emitted>>
                  ELSE StreamFinish(answer)
    /\ UNCHANGED <<other, earlier, usage_seen, model, kind, message, chat_mode,
                   n_dialog_messages_before, answer, n_input_tokens, n_output_tokens,
                   n_first_dialog_messages_removed, received, nevents, result>>

\* line 76: iterating the stream raises an error that is not an APIStatusError
StreamIterOtherError ==
    /\ pc = "iter"
    /\ \E e \in OtherErrors :
          /\ calls' = [calls EXCEPT ![Len(calls)].response = RespOtherError(e, TRUE)]
          /\ pc' = "failed"
          /\ outcome' = Err("propagated", e)
    /\ UNCHANGED <<other, earlier, usage_seen, model, kind, message, history,
                   chat_mode, dialog_messages,
                   n_dialog_messages_before, answer, n_input_tokens, n_output_tokens,
                   n_first_dialog_messages_removed, emitted, received, nevents, result>>

Next ==
    \/ Enter
    \/ StreamCreateOk
    \/ StreamCreateAPIStatusError
    \/ StreamCreateOtherError
    \/ StreamContentBlockDelta
    \/ StreamMessageDelta
    \/ StreamOtherEvent
    \/ StreamEnd
    \/ StreamIterAPIStatusError
    \/ StreamIterOtherError
    \/ SendCreateOk
    \/ SendCreateAPIStatusError
    \/ SendCreateOtherError

Spec == Init /\ [][Next]_vars

\* ------------------------------------- two calls in sequence, same inputs
\* The caller awaits send_message again with the same arguments after the first
\* call ended: a new activation with fresh locals; the client object and the
\* caller's list are whatever the first call left.
CallAgain ==
    /\ kind = "send" /\ pc \in {"done", "failed"}
    /\ earlier.run = 1
    /\ earlier' = [run |-> 2, calls |-> calls, outcome |-> outcome, result |-> result]
    /\ pc' = "start"
    /\ dialog_messages' = history
    /\ n_dialog_messages_before' = Unbound
    /\ answer' = None
    /\ n_input_tokens' = Unbound
    /\ n_output_tokens' = Unbound
    /\ n_first_dialog_messages_removed' = Unbound
    /\ calls' = <<>>
    /\ outcome' = NoOutcome
    /\ result' = <<>>
    /\ UNCHANGED <<other, usage_seen, model, kind, message, history, chat_mode, emitted,
                   received, nevents>>

\* a remote service that answers as a function of the request
DeterministicService ==
    LET log == earlier.calls \o calls IN
    \A i, j \in 1..Len(log) :
        log[i].request = log[j].request => log[i].response = log[j].response

InitTwice == Init /\ kind = "send"

NextTwice ==
    \/ Enter
    \/ SendCreateOk /\ DeterministicService'
    \/ SendCreateAPIStatusError /\ DeterministicService'
    \/ SendCreateOtherError /\ DeterministicService'
    \/ CallAgain

SpecTwice == InitTwice /\ [][NextTwice]_vars

\* ------------------------------------------ two calls on one client
\* Two activations on the same client, given the same list object as history.
\* The event loop runs one of them between two of its awaits (or yields); the
\* variables hold the running activation's locals, `other` the suspended one's.
OtherMessage == <<"g">>

InitConc ==
    /\ model \in {"claude-3-5-sonnet-20240620"}
    /\ kind \in {"send", "stream"}
    /\ message \in Messages
    /\ history \in {<<Turn1, Turn2>>}
    /\ chat_mode = "assistant"
    /\ pc = "start"
    /\ dialog_messages = history
    /\ n_dialog_messages_before = Unbound
    /\ answer = None
    /\ n_input_tokens = Unbound
    /\ n_output_tokens = Unbound
    /\ n_first_dialog_messages_removed = Unbound
    /\ calls = <<>>
    /\ emitted = <<>>
    /\ received = <<>>
    /\ nevents = 0
    /\ outcome = NoOutcome
    /\ result = <<>>
    /\ earlier = [run |-> 1, calls |-> <<>>, outcome |-> NoOutcome, result |-> <<>>]
    /\ usage_seen = Unbound
    /\ \E k \in {"send", "stream"} : other = FreshCall(k, OtherMessage, history, "assistant")

\* the event loop resumes the other activation
Switch ==
    /\ other.pc \notin {"none", "done", "failed"}
    /\ other' = Locals
    /\ kind' = other.kind
    /\ message' = other.message
    /\ chat_mode' = other.chat_mode
    /\ pc' = other.pc
    /\ dialog_messages' = other.dialog_messages
    /\ n_dialog_messages_before' = other.n_dialog_messages_before
    /\ answer' = other.answer
    /\ n_input_tokens' = other.n_input_tokens
    /\ n_output_tokens' = other.n_output_tokens
    /\ n_first_dialog_messages_removed' = other.n_first_dialog_messages_removed
    /\ calls' = other.calls
    /\ emitted' = other.emitted
    /\ received' = other.received
    /\ nevents' = other.nevents
    /\ outcome' = other.outcome
    /\ result' = other.result
    /\ usage_seen' = other.usage_seen
    /\ UNCHANGED <<model, history, earlier>>

\* the exploration of two interleaved calls is cut at these totals
ConcBudget ==
    /\ Len(calls) + Len(other.calls) <= MaxConcCalls
    /\ nevents + other.nevents <= MaxConcEvents

NextConc ==
    \/ Enter
    \/ SendCreateOk /\ ConcBudget'
    \/ SendCreateAPIStatusError /\ ConcBudget'
    \/ SendCreateOtherError /\ ConcBudget'
    \/ StreamCreateOk /\ ConcBudget'
    \/ StreamCreateAPIStatusError /\ ConcBudget'
    \/ StreamCreateOtherError /\ ConcBudget'
    \/ StreamContentBlockDelta /\ ConcBudget'
    \/ StreamMessageDelta /\ ConcBudget'
    \/ StreamOtherEvent /\ ConcBudget'
    \/ StreamEnd
    \/ StreamIterAPIStatusError
    \/ StreamIterOtherError
    \/ Switch

SpecConc == InitConc /\ [][NextConc]_vars

\* ------------------------------- _count_tokens_from_messages on its own
\* The function applied to the message list of (message, history), an answer
\* text and any model identifier.
InitCount ==
    /\ model \in ModelIds
    /\ kind = "stream"
    /\ message \in Messages
    /\ history \in Histories
    /\ chat_mode = "assistant"
    /\ pc = "count"
    /\ dialog_messages = history
    /\ n_dialog_messages_before = Unbound
    /\ answer \in AnswerTexts
    /\ n_input_tokens = Unbound
    /\ n_output_tokens = Unbound
    /\ n_first_dialog_messages_removed = Unbound
    /\ calls = <<>>
    /\ emitted = <<>>
    /\ received = <<>>
    /\ nevents = 0
    /\ outcome = NoOutcome
    /\ result = <<>>
    /\ earlier = [run |-> 1, calls |-> <<>>, outcome |-> NoOutcome, result |-> <<>>]
    /\ usage_seen = Unbound
    /\ other = NoCall

CountTokens ==
    /\ pc = "count"
    /\ LET t == _count_tokens_from_messages(
                     _generate_prompt_messages(message, dialog_messages, chat_mode),
                     answer, model) IN
       /\ n_input_tokens' = t.n_input_tokens
       /\ n_output_tokens' = t.n_output_tokens
       /\ outcome' = IF t.raised = NoOutcome THEN Ok ELSE t.raised
    /\ pc' = "counted"
    /\ UNCHANGED <<other, earlier, usage_seen, model, kind, message, history, chat_mode,
                   dialog_messages, n_dialog_messages_before, answer,
                   n_first_dialog_messages_removed, calls, emitted, received,
                   nevents, result>>

NextCount == CountTokens

SpecCount == InitCount /\ [][NextCount]_vars

\* ------------------------------------------------------------ properties
Terminal == pc \in {"done", "failed"}
Drop(h, k) == SubSeq(h, k + 1, Len(h))
AttemptHistory(i) == calls[i].request.dialog_messages
Response(i) == calls[i].response

\* the remote service's answer kinds, by the code the error carries
TooLarge(r)    == r.kind = "APIStatusError" /\ r.status_code.code = 403
RateLimit(r)   == r.kind = "APIStatusError" /\ r.status_code.code = 429
Success(r)     == r.kind \in {"ok", "stream_end"}
OtherFailure(r) == ~Success(r) /\ ~TooLarge(r) /\ ~RateLimit(r)

RECURSIVE Flatten(_)
Flatten(ss) == IF ss = <<>> THEN <<>> ELSE Head(ss) \o Flatten(Tail(ss))

Last(s) == s[Len(s)]
FinishedEmitted == \E i \in 1..Len(emitted) : emitted[i].status = "finished"

\* C1: with a non-empty history of n turns and 'context too large' reported on
\* every attempt, attempt k (k = 0..n) is made with the last n-k turns of the
\* original history, the call does not end before the attempt with the empty
\* history, and that attempt's failure raises the history-exhausted error.
C1_ShrinkOnePerAttempt ==
    ( /\ history # <<>>
      /\ \A i \in 1..Len(calls) : TooLarge(Response(i)) )
    => /\ \A i \in 1..Len(calls) :
             /\ i <= Len(history) + 1
             /\ AttemptHistory(i) = Drop(history, i - 1)
       /\ (Len(calls) = Len(history) + 1 => pc = "failed" /\ outcome = Exhausted)
       /\ (Terminal /\ calls # <<>> => outcome = Exhausted)

\* C2: a rate-limited failure (status 429) on the first attempt with a non-empty
\* history makes the call fail with the rate-limit error, with no turn dropped
\* and exactly one remote invocation.
C2_RateLimitShortCircuit ==
    ( /\ history # <<>>
      /\ calls # <<>>
      /\ RateLimit(Response(1)) )
    => /\ pc = "failed"
       /\ outcome = RateLimited
       /\ dialog_messages = history
       /\ Len(calls) = 1

\* C3: a remote error that is neither 'context too large' nor 'rate limited'
\* ends the call with that same error after that one invocation; it is neither
\* retried nor swallowed nor turned into another error.
C3_OtherErrorsPropagate ==
    \A i \in 1..Len(calls) :
        OtherFailure(Response(i))
        => /\ i = Len(calls)
           /\ pc = "failed"
           /\ outcome = Err("propagated", Response(i).kind)

\* C4: a call makes at most n+1 remote invocations for a history of n turns
\* and never issues two attempts with the same effective history.
C4_BoundedAttempts ==
    /\ Len(calls) <= Len(history) + 1
    /\ \A i, j \in 1..Len(calls) : i < j => AttemptHistory(i) # AttemptHistory(j)

\* C5: the discarded-turn count never decreases along the emitted elements, and
\* on success the reported count (third component of send's result, fourth of
\* the stream's "finished" element) is the initial turn count minus the number
\* of turns of the effective history at the end of the call.
C5_DiscardedCount ==
    /\ \A i, j \in 1..Len(emitted) : i < j => emitted[i].removed <= emitted[j].removed
    /\ (kind = "send" /\ pc = "done")
         => result[3] = Len(history) - Len(dialog_messages)
    /\ (kind = "stream" /\ pc = "done")
         => Last(emitted).removed = Len(history) - Len(dialog_messages)

\* C6: when send_message returns, the discarded count equals the number of
\* remote attempts that failed, i.e. the number of remote invocations minus 1.
C6_DiscardedEqualsFailedAttempts ==
    (kind = "send" /\ pc = "done") => result[3] = Len(calls) - 1

\* C7: when the underlying stream of send_message_stream ends without an error,
\* whatever events it delivered, the emitted sequence is zero or more
\* "not_finished" elements followed by exactly one "finished" element.
C7_StreamShape ==
    (kind = "stream" /\ calls # <<>> /\ Last(calls).response.kind = "stream_end")
    => /\ pc = "done"
       /\ emitted # <<>>
       /\ Last(emitted).status = "finished"
       /\ \A i \in 1..(Len(emitted) - 1) : emitted[i].status = "not_finished"

\* C8: a "not_finished" element carries the concatenation, in arrival order, of
\* the fragments received so far in the current attempt, and the "finished"
\* element carries the trimmed concatenation of exactly the fragments of the
\* attempt whose stream ran to its end.
C8_StreamAnswerContent ==
    emitted # <<>> =>
       /\ (Last(emitted).status = "not_finished" /\ pc = "iter")
            => Last(emitted).answer = Flatten(received)
       /\ Last(emitted).status = "finished"
            => /\ Last(calls).response.kind = "stream_end"
               /\ Last(emitted).answer = _postprocess_answer(Flatten(received))

\* C9: when 'context too large' is surfaced while the stream is being read and
\* the effective history is non-empty, the oldest turn is dropped, a new attempt
\* follows with the shorter history and an empty running answer, and no
\* "finished" element is emitted for the failed attempt.
C9_RetryAfterMidStreamTooLarge ==
    ( /\ calls # <<>>
      /\ TooLarge(Last(calls).response)
      /\ Last(calls).response.midstream
      /\ Last(calls).request.dialog_messages # <<>> )
    => /\ pc = "loop"
       /\ answer = None
       /\ dialog_messages = Tail(Last(calls).request.dialog_messages)
       /\ ~FinishedEmitted

\* C10: the history-exhausted error is raised if and only if 'context too large'
\* was reported on an attempt made with an empty effective history; another
\* kind of failure on such an attempt is surfaced as its own kind.
C10_ExhaustedIffTooLargeOnEmpty ==
    (outcome = Exhausted)
    <=> ( /\ calls # <<>>
          /\ TooLarge(Last(calls).response)
          /\ Last(calls).request.dialog_messages = <<>>
          /\ pc = "failed" )

\* C11: the message list sent on every attempt has length 2*len(history)+1 for
\* the effective history of the attempt, alternates user, assistant, ..., user,
\* holds turn t's user text at (0-based) index 2(t-1) and its assistant text at
\* the next index, ends with the new message as a user entry, and has no entry
\* for the system prompt, which travels in the request's own `system` field.
C11_PromptMessagesShape ==
    \A i \in 1..Len(calls) :
        LET ms == calls[i].request.messages
            dm == calls[i].request.dialog_messages IN
        /\ Len(ms) = 2 * Len(dm) + 1
        /\ \A k \in 1..Len(ms) :
              ms[k].role = (IF k % 2 = 1 THEN "user" ELSE "assistant")
        /\ \A t \in 1..Len(dm) :
              /\ ms[2 * t - 1].content = dm[t].user
              /\ ms[2 * t].content = dm[t].bot
        /\ ms[Len(ms)] = [role |-> "user", content |-> message]
        /\ calls[i].request.system = chat_modes[chat_mode]

C11_Witness ==
    \E i \in 1..Len(calls) :
        /\ calls[i].request.dialog_messages = <<Turn1, Turn2>>
        /\ Len(calls[i].request.messages) = 5

\* C12: across the attempts of one call only the history part of the request
\* changes: the new user message, the system prompt, the model identifier, the
\* sampling options and the streaming flag are the same in every remote
\* invocation, and the effective history of every attempt is a suffix of the
\* caller's original history.
C12_OnlyHistoryChanges ==
    \A i \in 1..Len(calls) :
        LET q == calls[i].request IN
        /\ q.model = calls[1].request.model /\ q.model = model
        /\ q.system = calls[1].request.system
        /\ q.options = ANTHROPIC_COMPLETION_OPTIONS
        /\ q.stream = (kind = "stream")
        /\ q.messages[Len(q.messages)].content = message
        /\ \E k \in 0..Len(history) : q.dialog_messages = Drop(history, k)

C12_Witness ==
    /\ history = <<Turn1, Turn2>>
    /\ Len(calls) >= 2
    /\ AttemptHistory(1) = history
    /\ AttemptHistory(2) = <<Turn2>>

\* C13: no step of send_message or send_message_stream changes the caller's
\* history list (nor the shared default empty list): whatever the outcome and
\* however many turns were dropped, it holds the same turns in the same order;
\* the trimming shows only in the local list and the returned count.
C13_CallerHistoryUntouched == [][history' = history]_vars

C13_Witness ==
    /\ pc = "done"
    /\ history = <<Turn1, Turn2>>
    /\ dialog_messages = <<>>
    /\ Len(calls) = 3

\* C14: with a mode key that is not configured, the call (for the stream: its
\* first consumption) fails with the unsupported-mode error before any remote
\* invocation and before any element is emitted, and nothing is retried.
C14_UnsupportedMode ==
    chat_mode \notin DOMAIN chat_modes
    => /\ calls = <<>>
       /\ emitted = <<>>
       /\ pc \in {"start", "failed"}
       /\ pc = "failed" => outcome = UnsupportedMode

C14_Witness ==
    /\ chat_mode \notin DOMAIN chat_modes
    /\ kind = "stream"
    /\ pc = "failed"
    /\ outcome = UnsupportedMode

\* trimmed is full without its leading and trailing whitespace
IsTrimOf(trimmed, full) ==
    /\ trimmed # <<>> => Head(trimmed) \notin Whitespace /\ Last(trimmed) \notin Whitespace
    /\ \E i \in 0..Len(full) :
          /\ i + Len(trimmed) <= Len(full)
          /\ SubSeq(full, i + 1, i + Len(trimmed)) = trimmed
          /\ \A k \in 1..Len(full) :
                (k <= i \/ k > i + Len(trimmed)) => full[k] \in Whitespace

\* C15: when send_message returns, its result is the answer text of the
\* successful attempt without leading and trailing whitespace, the input and
\* output token counts the provider reported for that attempt, and the number
\* of turns dropped; the answer "  a a  "-like text with usage (5,3) on an empty
\* history gives ("a a", (5,3), 0).
C15_SendResult ==
    (kind = "send" /\ pc = "done")
    => LET ok == Last(calls) IN
       /\ ok.response.kind = "ok"
       /\ \A i \in 1..(Len(calls) - 1) : ~Success(Response(i))
       /\ IsTrimOf(result[1], ok.response.text)
       /\ result[2] = ok.response.usage
       /\ result[3] = Len(history) - Len(ok.request.dialog_messages)
       /\ ( /\ history = <<>>
            /\ ok.response.text = <<" ", "a", " ", "a", " ">>
            /\ ok.response.usage = <<5, 3>> )
          => result = << <<"a", " ", "a">>, <<5, 3>>, 0 >>

C15_Witness ==
    /\ kind = "send" /\ pc = "done"
    /\ Len(calls) = 2
    /\ Last(calls).response.text = <<" ", "a", " ", "a", " ">>
    /\ result = << <<"a", " ", "a">>, <<7, 2>>, 1 >>

\* C16: two send_message calls with the same message, history and mode against
\* a service that answers as a function of the request end alike: the same
\* requests, the same (answer, tokens, discarded count) or the same error.
C16_SendDeterministic ==
    (earlier.run = 2 /\ pc \in {"done", "failed"})
    => /\ outcome = earlier.outcome
       /\ result = earlier.result
       /\ calls = earlier.calls

C16_Witness ==
    /\ earlier.run = 2 /\ pc = "done"
    /\ Len(calls) = 3
    /\ result[3] = 2

\* C17: once a message_delta event of the current attempt has reported the
\* provider's output-token count, every element emitted afterwards in that
\* attempt, the "finished" element included, carries that count and not the
\* local estimate.
C17_ProviderUsagePrecedence ==
    (kind = "stream" /\ usage_seen # Unbound /\ pc \in {"iter", "done"})
    => /\ emitted # <<>>
       /\ Last(emitted).tokens[2] = usage_seen

\* the identifiers the if-chain of _count_tokens_from_messages lists
Recognized(mdl) ==
    mdl \in {"gpt-3.5-turbo-16k", "gpt-3.5-turbo", "gpt-4", "gpt-4-1106-preview",
             "claude-3-opus-20240229", "claude-3-sonnet-20240229",
             "claude-3-5-sonnet-20240620"}
Overhead(mdl) == IF mdl \in {"gpt-3.5-turbo-16k", "gpt-3.5-turbo"} THEN 4 ELSE 3

\* sum over the first n messages of ms of overhead + tok(content) (+ tok(role))
RECURSIVE Estimate(_, _, _, _)
Estimate(ms, n, per, withRole) ==
    IF n = 0 THEN 0
    ELSE Estimate(ms, n - 1, per, withRole) + per + Len(ms[n].content)
         + (IF withRole THEN 1 ELSE 0)

CountedMessages == _generate_prompt_messages(message, history, chat_mode)

\* C18 as stated: for a recognized model the input estimate is the sum over the
\* messages of the per-message overhead plus the tokens of the message's content
\* only, plus 2 per conversation, and the output estimate is tok(answer) + 1; an
\* unrecognized model identifier fails with the unknown-model error.
C18_ContentOnlyEstimate ==
    pc = "counted" =>
       IF Recognized(model)
       THEN /\ outcome = Ok
            /\ n_input_tokens =
                  Estimate(CountedMessages, Len(CountedMessages), Overhead(model), FALSE) + 2
            /\ n_output_tokens = Len(answer) + 1
       ELSE outcome = UnknownModel

\* C18 as amended: the input estimate counts, for every message, the overhead,
\* the tokens of its role and the tokens of its content, plus 2; the output
\* estimate is tok(answer) + 1; an unrecognized identifier fails with the
\* unknown-model error when it contains 'claude' or tiktoken knows it, and with
\* tiktoken's KeyError otherwise.
C18_RoleAndContentEstimate ==
    pc = "counted" =>
       IF Recognized(model)
       THEN /\ outcome = Ok
            /\ n_input_tokens =
                  Estimate(CountedMessages, Len(CountedMessages), Overhead(model), TRUE) + 2
            /\ n_output_tokens = Len(answer) + 1
       ELSE /\ outcome = (IF model \in {"claude-2", "text-davinci-003"}
                          THEN UnknownModel ELSE TiktokenKeyError)
            /\ n_input_tokens = Unbound

C18_Witness ==
    /\ pc = "counted"
    /\ model = "claude-3-5-sonnet-20240620"
    /\ history = <<Turn1, Turn2>>
    /\ answer = <<" ", "a", " ", "a", " ">>
    /\ n_input_tokens = 27
    /\ n_output_tokens = 6

\* C20: a client the constructor accepted never ends a call with the
\* unknown-model error: the model test of the retry loop always succeeds (no
\* 'Unknown model' ValueError, no strip of None) and the token count done while
\* streaming always finds the model's constants.
C20_NoUnknownModel ==
    /\ model \in LoopModels
    /\ tokens_per_message(model) # Unbound
    /\ outcome \notin {UnknownModel, TiktokenKeyError, NoneHasNoStrip}

C20_Witness ==
    /\ kind = "stream" /\ pc = "done"
    /\ Len(emitted) = 3
    /\ n_input_tokens # Unbound

\* number of the first n attempts of a log that ended in the drop of a turn
RECURSIVE Trims(_, _)
Trims(log, n) ==
    IF n = 0 THEN 0
    ELSE Trims(log, n - 1)
         + (IF /\ log[n].response.kind = "APIStatusError"
               /\ log[n].response.status_code = StrCode(403)
               /\ log[n].request.dialog_messages # <<>>
            THEN 1 ELSE 0)

\* what a call does when it runs alone, as far as its own inputs and the
\* answers it received determine it: every request carries the call's own
\* message and the history minus the turns the call's own failed attempts
\* dropped, and the counts it reports are the call's own drops
RunsAsAlone(c) ==
    /\ \A i \in 1..Len(c.calls) :
          LET q == c.calls[i].request IN
          /\ q.dialog_messages = Drop(history, Trims(c.calls, i - 1))
          /\ q.messages = _generate_prompt_messages(c.message, q.dialog_messages, c.chat_mode)
          /\ q.stream = (c.kind = "stream")
    /\ c.pc # "start" => c.dialog_messages = Drop(history, Trims(c.calls, Len(c.calls)))
    /\ \A i \in 1..Len(c.emitted) : c.emitted[i].removed <= Trims(c.calls, Len(c.calls))
    /\ (c.kind = "send" /\ c.pc = "done") => c.result[3] = Trims(c.calls, Len(c.calls))

\* a step of the running call leaves the suspended call's locals, the client's
\* model and the shared history list as they were; a switch only exchanges the
\* two calls
IsolatedStep ==
    /\ history' = history
    /\ model' = model
    /\ \/ other' = other
       \/ other' = Locals /\ Locals' = other

\* C19: two calls on the same client, given the same history list and
\* interleaved at their awaits, do not affect each other: each call's requests
\* and reported counts are those it makes alone on the same answers, and no
\* step of one call changes the other call's effective history, running answer
\* or discarded count.
C19_ConcurrentCallsIsolated ==
    /\ [](RunsAsAlone(Locals) /\ RunsAsAlone(other))
    /\ [][IsolatedStep]_vars

C19_Witness ==
    /\ Len(calls) = 2
    /\ dialog_messages = <<Turn2>>
    /\ other.pc = "iter"
    /\ other.dialog_messages = <<Turn1, Turn2>>
    /\ Len(other.emitted) = 1
====
